---- MODULE Spec2Model ----
(***************************************************************************)
(* Model of the rate-limited request queue of the Jikan client             *)
(* (src/src/api/jikanApi.ts, lines 8-70): the module-level state           *)
(* lastRequestTime / pendingRequests / isProcessingQueue, the submit       *)
(* function executeWithRateLimit and the drain loop processRequestQueue.   *)
(*                                                                         *)
(* JavaScript runs the code between two awaits as one indivisible step of  *)
(* the event loop, so each action below is one such step:                  *)
(*   Submit       a call of executeWithRateLimit (lines 18-46), including  *)
(*                the synchronous call of processRequestQueue it may make  *)
(*   TimerFire    the setTimeout of line 29 fires; the thunk resumes and   *)
(*                invokes the operation (line 33)                          *)
(*   OpSettle     the promise returned by apiCall() settles                *)
(*   ThunkResume  the thunk resumes after `await apiCall()` (lines 34-35   *)
(*                or the catch of lines 36-38)                             *)
(*   DrainResume  processRequestQueue resumes after `await nextRequest()`  *)
(*                and calls itself (line 69, then lines 52-62)             *)
(*   Tick         the wall clock read by Date.now() advances               *)
(***************************************************************************)
EXTENDS Integers, Sequences, FiniteSets, TLC

\* ---- program constant --------------------------------------------------
API_COOLDOWN_MS == 500

\* ---- bounds of the model -----------------------------------------------
MaxJobs == 3
MaxTime == 2000
MaxClientCalls == 2
MaxHistCalls == 2
MaxAttempts == 3
MaxDays == 8
MaxWatchCalls == 2

\* The clock advances in steps of half a cooldown, so that operations both
\* shorter and longer than the cooldown, and partial waits, all occur.
TickStep == API_COOLDOWN_MS \div 2
\* Date.now() at module load: any real epoch time exceeds the cooldown.
BootTime == 2 * API_COOLDOWN_MS

Jobs == 1..MaxJobs
None == 0
\* What the operation of job j can settle with: a value or an error, each
\* particular to the job (the operation closes over its own arguments).
Outcomes(j) == {[kind |-> "value", v |-> j], [kind |-> "error", v |-> j]}
Pending == [kind |-> "pending", v |-> None]
NoSettle == [job |-> None, start |-> None, settle |-> None, kind |-> "none"]

VARIABLES
    clock,              \* Date.now()
    lastRequestTime,    \* line 9
    pendingRequests,    \* line 10: queue of thunks, each named by its job
    isProcessingQueue,  \* line 11
    jobState,           \* position of each job's thunk / drain-loop frame
    timerDue,           \* due time of the setTimeout of line 29, per job
    opResult,           \* what the job's apiCall() promise settled with
    promise,            \* state of the promise returned to the caller
    deliveries,         \* number of resolve/reject calls made for the job
    \* history of observations, used only by the properties
    startSeq,           \* jobs in the order their operations were invoked
    prevStartTime,      \* Date.now() at the invocation before the last one
    lastStartTime,      \* Date.now() at the last invocation of an operation
    lastStartInSubmit,  \* the last invocation happened inside a submit call
    lastWait,           \* timeToWait computed for the last dequeued job
    lastSettled,        \* the operation that settled last: job, times, kind
    lastSuccessDone,    \* Date.now() when a thunk last resumed with a value
    runningAtSubmit,    \* the job that was running when job j was submitted
    restartJob,         \* the job whose submit last found no drain loop
                        \* alive, after an earlier drain loop had ended
    \* observation of submission times, recorded only when observeWait
    observeWait,        \* whether submission times are being recorded
    lastSubmitTime,     \* Date.now() at the last call of executeWithRateLimit
    lastSubmitAhead,    \* jobs queued or running ahead of the job it created
    \* the exported fetch functions of src/api (jikanApi.ts, animeApi.ts)
    clientCalls,        \* the calls made so far, each with its position
    \* the search history (src/unnamed/part_005)
    storage,            \* the AsyncStorage item 'anime_search_history'
    histCalls,          \* the calls of the search-history functions
    \* the server connection at start-up (App.tsx, serverPreheater, firebase)
    remoteUrlSet,       \* EXPO_PUBLIC_REMOTE_API_URL is defined
    API_URL,            \* the server the app talks to: "local" or "remote"
    init,               \* position of App.initialize
    wake,               \* the call of wakeServer: position, attempt, result
    health,             \* the call of checkServerHealth: position, result
    connLog,            \* requests, progress updates and delays, in order
    \* the donation dialog (useDonationDialog.ts)
    day,                \* the current day (new Date(), in whole days)
    firstLoginItem,     \* AsyncStorage item 'user_first_login_timestamp'
    lastShownItem,      \* AsyncStorage item 'donation_dialog_last_shown'
    track,              \* position of trackFirstLogin
    check,              \* position and locals of checkAndShowDonationDialog
    actualFirstLogin,   \* the day of the user's first session
    shows,              \* the days on which showDonationDialog was called
    \* the watchlist (WatchlistProvider, src/src/contexts/ThemeContext.tsx)
    user,               \* a user is logged in
    backend,            \* the documents of users/<uid>/watchlist, newest first
    items,              \* the local items list (React state)
    watchCalls          \* the calls of add / update / remove, each with its position

vars == <<clock, lastRequestTime, pendingRequests, isProcessingQueue,
          jobState, timerDue, opResult, promise, deliveries,
          startSeq, prevStartTime, lastStartTime, lastStartInSubmit,
          lastWait, lastSettled, lastSuccessDone, runningAtSubmit, restartJob>>

waitVars == <<observeWait, lastSubmitTime, lastSubmitAhead>>

\* The variables outside the request queue; its steps leave them alone.
connVars == <<remoteUrlSet, API_URL, init, wake, health, connLog>>
\* The application state beside the Jikan client and the search history.
donationVars == <<day, firstLoginItem, lastShownItem, track, check,
                  actualFirstLogin, shows>>
watchVars == <<user, backend, items, watchCalls>>
appVars == <<connVars, donationVars, watchVars>>
outside == <<clientCalls, storage, histCalls, appVars>>

\* The history variables an invocation of an operation updates.
startHist == <<startSeq, prevStartTime, lastStartTime>>

Max(a, b) == IF a >= b THEN a ELSE b

\* Jobs are numbered in submission order: the next submit creates job
\* number (submitted so far) + 1.
Submitted == {j \in Jobs : jobState[j] # "unsubmitted"}
\* Jobs whose operation has been invoked.
Started == {startSeq[i] : i \in 1..Len(startSeq)}
\* A job is between invocation and settlement of its operation.
Running == {j \in Jobs : jobState[j] = "running"}
\* Jobs that hold a live processRequestQueue frame (a drain chain).
InDrain == {j \in Jobs : jobState[j] \in {"cooldown", "running", "opSettled", "thunkDone"}}

ExecutorInit ==
    /\ clock = BootTime
    /\ lastRequestTime = 0
    /\ pendingRequests = <<>>
    /\ isProcessingQueue = FALSE
    /\ jobState = [j \in Jobs |-> "unsubmitted"]
    /\ timerDue = [j \in Jobs |-> None]
    /\ opResult = [j \in Jobs |-> Pending]
    /\ promise = [j \in Jobs |-> Pending]
    /\ deliveries = [j \in Jobs |-> 0]
    /\ startSeq = <<>>
    /\ prevStartTime = None
    /\ lastStartTime = None
    /\ lastStartInSubmit = FALSE
    /\ lastWait = None
    /\ lastSettled = NoSettle
    /\ lastSuccessDone = None
    /\ runningAtSubmit = [j \in Jobs |-> None]
    /\ restartJob = None
    /\ lastSubmitTime = None
    /\ lastSubmitAhead = None

\* AsyncStorage.getItem returns null for a key that was never set.
Null == [set |-> FALSE, text |-> <<>>]
\* A search-history call that has not been made.
NoCall == [op |-> "none", query |-> <<>>, pc |-> "idle", local |-> <<>>,
           readOk |-> FALSE, ok |-> FALSE]
HistCallIds == 1..MaxHistCalls

\* wakeServer and checkServerHealth before they are called.
NoWake == [pc |-> "idle", by |-> "none", attempt |-> 0, maxAttempts |-> 0,
           success |-> FALSE]
NoHealth == [pc |-> "idle", result |-> FALSE]

\* Module initialisation of the server connection: API_URL starts as the
\* local URL, nothing has been called.
ConnIdle ==
    /\ API_URL = "local"
    /\ init = "idle"
    /\ wake = NoWake
    /\ health = NoHealth
    /\ connLog = <<>>

\* checkAndShowDonationDialog before it is called.
NoCheck == [pc |-> "idle", lastShown |-> None, now |-> None]

\* A fresh installation on day 1: no item stored, no session yet.
DonationIdle ==
    /\ day = 1
    /\ firstLoginItem = None
    /\ lastShownItem = None
    /\ track = "idle"
    /\ check = NoCheck
    /\ actualFirstLogin = None
    /\ shows = {}

\* A watchlist call that has not been made.
NoWatchCall == [op |-> "none", animeId |-> 0, id |-> 0, status |-> "none",
                pc |-> "idle", found |-> FALSE]
WatchCallIds == 1..MaxWatchCalls

\* A logged-in user with an empty watchlist, no call made.
WatchIdle ==
    /\ user = TRUE
    /\ backend = <<>>
    /\ items = <<>>
    /\ watchCalls = [c \in WatchCallIds |-> NoWatchCall]

\* The application state at rest, with the remote URL configured.
AppIdle ==
    /\ remoteUrlSet = TRUE
    /\ ConnIdle
    /\ DonationIdle
    /\ WatchIdle

\* The other parts of the client at rest.
OutsideIdle ==
    /\ clientCalls = <<>>
    /\ storage = Null
    /\ histCalls = [c \in HistCallIds |-> NoCall]
    /\ AppIdle

Init == ExecutorInit /\ observeWait = FALSE /\ OutsideIdle

\* (mutant) the cooldown is never waited for.
TimeToWait_NoCooldown(now, last) == 0

\* line 26: Math.max(0, lastRequestTime + API_COOLDOWN_MS - now)
TimeToWait(now, last) == Max(0, last + API_COOLDOWN_MS - now)

\* (mutant) pop() instead of shift(): the newest thunk is taken.
Shift_Pop(q) == <<q[Len(q)], SubSeq(q, 1, Len(q) - 1)>>

\* line 58: pendingRequests.shift() on a non-empty array: the pair of the
\* element it returns (the first) and the array it leaves (the rest).
Shift(q) == <<Head(q), Tail(q)>>

\* (mutant) every submit call starts a drain loop.
ShouldStartDrain_Always == TRUE

\* line 42: the submit call starts a drain loop only if none is active.
ShouldStartDrain == ~isProcessingQueue

\* Line 33: apiCall() is invoked for job j, from job positions js.
Invoke(j, js) ==
    /\ jobState' = [js EXCEPT ![j] = "running"]
    /\ startSeq' = Append(startSeq, j)
    /\ prevStartTime' = lastStartTime
    /\ lastStartTime' = clock

\* Lines 24-33, the synchronous part of the thunk of job j, run from a
\* state whose job positions are js: compute the wait; either suspend on
\* the timer or invoke the operation at once.
NextRequest(j, js) ==
    LET now == clock
        timeToWait == TimeToWait(now, lastRequestTime)
    IN  /\ lastWait' = timeToWait
        /\ IF timeToWait > 0
             THEN /\ jobState' = [js EXCEPT ![j] = "cooldown"]
                  /\ timerDue' = [timerDue EXCEPT ![j] = now + timeToWait]
                  /\ UNCHANGED startHist
             ELSE /\ Invoke(j, js)
                  /\ UNCHANGED timerDue

\* (mutant) line 57 missing: the flag is never set.
ProcessRequestQueue_NoFlagSet(q, js) ==
    IF Len(q) = 0
      THEN /\ isProcessingQueue' = FALSE
           /\ pendingRequests' = q
           /\ jobState' = js
           /\ UNCHANGED <<timerDue, startHist, lastWait>>
      ELSE /\ isProcessingQueue' = FALSE
           /\ pendingRequests' = Shift(q)[2]
           /\ NextRequest(Shift(q)[1], js)

\* (mutant) line 53 missing: the flag is never cleared.
ProcessRequestQueue_NoFlagClear(q, js) ==
    IF Len(q) = 0
      THEN /\ isProcessingQueue' = isProcessingQueue
           /\ pendingRequests' = q
           /\ jobState' = js
           /\ UNCHANGED <<timerDue, startHist, lastWait>>
      ELSE /\ isProcessingQueue' = TRUE
           /\ pendingRequests' = Shift(q)[2]
           /\ NextRequest(Shift(q)[1], js)

\* Lines 51-62, processRequestQueue up to its await, run on the queue q.
ProcessRequestQueue(q, js) ==
    IF Len(q) = 0
      THEN /\ isProcessingQueue' = FALSE
           /\ pendingRequests' = q
           /\ jobState' = js
           /\ UNCHANGED <<timerDue, startHist, lastWait>>
      ELSE /\ isProcessingQueue' = TRUE
           /\ pendingRequests' = Shift(q)[2]
           /\ NextRequest(Shift(q)[1], js)

\* The jobs ahead of a job submitted now: queued, waiting out a cooldown,
\* or with their operation invoked and its outcome not yet delivered.
Ahead == Len(pendingRequests)
           + Cardinality({j \in Jobs : jobState[j] \in {"cooldown", "running", "opSettled"}})

\* Observation of a call of executeWithRateLimit: when and behind how many.
RecordSubmit ==
    IF observeWait
      THEN lastSubmitTime' = clock /\ lastSubmitAhead' = Ahead
      ELSE UNCHANGED <<lastSubmitTime, lastSubmitAhead>>

\* (mutant) the submit call waits for the drain loop to end before it
\* enqueues.
Submit_Blocking ==
    /\ InDrain = {}
    /\ Cardinality(Submitted) < MaxJobs
    /\ LET j == Cardinality(Submitted) + 1
           q == Append(pendingRequests, j)
           js == [jobState EXCEPT ![j] = "queued"]
       IN  /\ runningAtSubmit' = [runningAtSubmit EXCEPT ![j] =
                  IF Running # {} THEN CHOOSE k \in Running : TRUE ELSE None]
           /\ restartJob' = IF InDrain = {} /\ j > 1 THEN j ELSE restartJob
           /\ IF ShouldStartDrain
                THEN /\ ProcessRequestQueue(q, js)
                     /\ lastStartInSubmit' =
                          IF jobState'[j] = "running" THEN TRUE ELSE lastStartInSubmit
                ELSE /\ pendingRequests' = q
                     /\ jobState' = js
                     /\ UNCHANGED <<isProcessingQueue, timerDue, startHist,
                                    lastWait, lastStartInSubmit>>
    /\ UNCHANGED <<clock, lastRequestTime, opResult, promise, deliveries,
                   lastSettled, lastSuccessDone>>
    /\ RecordSubmit
    /\ UNCHANGED <<observeWait, outside>>

\* Lines 18-46: executeWithRateLimit(apiCall).
Submit ==
    /\ Cardinality(Submitted) < MaxJobs
    /\ LET j == Cardinality(Submitted) + 1
           q == Append(pendingRequests, j)
           js == [jobState EXCEPT ![j] = "queued"]
       IN  /\ runningAtSubmit' = [runningAtSubmit EXCEPT ![j] =
                  IF Running # {} THEN CHOOSE k \in Running : TRUE ELSE None]
           /\ restartJob' = IF InDrain = {} /\ j > 1 THEN j ELSE restartJob
           /\ IF ShouldStartDrain
                THEN /\ ProcessRequestQueue(q, js)
                     /\ lastStartInSubmit' =
                          IF jobState'[j] = "running" THEN TRUE ELSE lastStartInSubmit
                ELSE /\ pendingRequests' = q
                     /\ jobState' = js
                     /\ UNCHANGED <<isProcessingQueue, timerDue, startHist,
                                    lastWait, lastStartInSubmit>>
    /\ UNCHANGED <<clock, lastRequestTime, opResult, promise, deliveries,
                   lastSettled, lastSuccessDone>>
    /\ RecordSubmit
    /\ UNCHANGED <<observeWait, outside>>

\* Line 29 then line 33: the cooldown timer of job j fires (never before
\* it is due) and the thunk invokes the operation.
TimerFire(j) ==
    /\ jobState[j] = "cooldown"
    /\ clock >= timerDue[j]
    /\ Invoke(j, jobState)
    /\ lastStartInSubmit' = FALSE
    /\ UNCHANGED <<clock, lastRequestTime, pendingRequests, isProcessingQueue,
                   timerDue, opResult, promise, deliveries, lastWait,
                   lastSettled, lastSuccessDone, runningAtSubmit, restartJob>>
    /\ UNCHANGED <<waitVars, outside>>

\* The promise returned by apiCall() settles, with a value or an error.
OpSettle(j, o) ==
    /\ jobState[j] = "running"
    /\ jobState' = [jobState EXCEPT ![j] = "opSettled"]
    /\ opResult' = [opResult EXCEPT ![j] = o]
    /\ lastSettled' = [job |-> j, start |-> lastStartTime, settle |-> clock,
                       kind |-> o.kind]
    /\ UNCHANGED <<clock, lastRequestTime, pendingRequests, isProcessingQueue,
                   timerDue, promise, deliveries, startHist, lastStartInSubmit,
                   lastWait, lastSuccessDone, runningAtSubmit, restartJob>>
    /\ UNCHANGED <<waitVars, outside>>

\* (mutant) the clock is recorded in a finally: on failures too.
LastRequestTimeAfter_Always(o, now, last) == now

\* The value of lastRequestTime the thunk leaves when it resumes at time
\* now with outcome o: line 34 runs only when the await of line 33
\* produced a value; the catch of lines 36-38 does not touch the clock.
LastRequestTimeAfter(o, now, last) == IF o.kind = "value" THEN now ELSE last

\* (mutant) the outcome is wrapped: every delivery is a rejection.
Delivered_Wrapped(j) == [kind |-> "error", v |-> opResult[j].v]

\* What the thunk of job j hands to resolve (line 35) or reject (line 37).
Delivered(j) == opResult[j]

\* Lines 34-38: the thunk of job j resumes after `await apiCall()`.
\* A promise takes the first resolve/reject only.
ThunkResume(j) ==
    /\ jobState[j] = "opSettled"
    /\ lastRequestTime' = LastRequestTimeAfter(opResult[j], clock, lastRequestTime)
    /\ promise' = [promise EXCEPT ![j] =
                      IF promise[j] = Pending THEN Delivered(j) ELSE promise[j]]
    /\ deliveries' = [deliveries EXCEPT ![j] = @ + 1]
    /\ lastSuccessDone' = IF opResult[j].kind = "value" THEN clock ELSE lastSuccessDone
    /\ jobState' = [jobState EXCEPT ![j] = "thunkDone"]
    /\ UNCHANGED <<clock, pendingRequests, isProcessingQueue, timerDue,
                   opResult, startHist, lastStartInSubmit, lastWait,
                   lastSettled, runningAtSubmit, restartJob>>
    /\ UNCHANGED <<waitVars, outside>>

\* (mutant) a failed job ends the drain loop: the queue is left as it is.
DrainResume_StopOnError(j) ==
    /\ jobState[j] = "thunkDone"
    /\ IF promise[j].kind = "error"
         THEN /\ jobState' = [jobState EXCEPT ![j] = "done"]
              /\ isProcessingQueue' = FALSE
              /\ UNCHANGED <<pendingRequests, timerDue, startHist, lastWait>>
         ELSE ProcessRequestQueue(pendingRequests, [jobState EXCEPT ![j] = "done"])
    /\ lastStartInSubmit' = IF Len(startSeq') > Len(startSeq) THEN FALSE
                            ELSE lastStartInSubmit
    /\ UNCHANGED <<clock, lastRequestTime, opResult, promise, deliveries,
                   lastSettled, lastSuccessDone, runningAtSubmit, restartJob>>
    /\ UNCHANGED <<waitVars, outside>>

\* (mutant) line 69 missing: the loop does not go on to the next thunk.
DrainResume_NoRecursion(j) ==
    /\ jobState[j] = "thunkDone"
    /\ jobState' = [jobState EXCEPT ![j] = "done"]
    /\ UNCHANGED <<clock, lastRequestTime, pendingRequests, isProcessingQueue,
                   timerDue, opResult, promise, deliveries, startHist,
                   lastStartInSubmit, lastWait, lastSettled, lastSuccessDone,
                   runningAtSubmit, restartJob>>
    /\ UNCHANGED <<waitVars, outside>>

\* Lines 62-69: `await nextRequest()` returns (the thunk never rejects, it
\* catches everything), and processRequestQueue calls itself.
DrainResume(j) ==
    /\ jobState[j] = "thunkDone"
    /\ ProcessRequestQueue(pendingRequests, [jobState EXCEPT ![j] = "done"])
    /\ lastStartInSubmit' = IF Len(startSeq') > Len(startSeq) THEN FALSE
                            ELSE lastStartInSubmit
    /\ UNCHANGED <<clock, lastRequestTime, opResult, promise, deliveries,
                   lastSettled, lastSuccessDone, runningAtSubmit, restartJob>>
    /\ UNCHANGED <<waitVars, outside>>

\* The wall clock advances.  The bound MaxTime stops idle time, but never
\* keeps a pending timer from becoming due.
Tick ==
    /\ \/ clock + TickStep <= MaxTime
       \/ \E j \in Jobs : jobState[j] = "cooldown" /\ clock < timerDue[j]
    /\ clock' = clock + TickStep
    /\ UNCHANGED <<lastRequestTime, pendingRequests, isProcessingQueue,
                   jobState, timerDue, opResult, promise, deliveries,
                   startHist, lastStartInSubmit, lastWait, lastSettled,
                   lastSuccessDone, runningAtSubmit, restartJob>>
    /\ UNCHANGED <<waitVars, outside>>

Next ==
    \/ Submit
    \/ \E j \in Jobs : TimerFire(j)
    \/ \E j \in Jobs : \E o \in Outcomes(j) : OpSettle(j, o)
    \/ \E j \in Jobs : ThunkResume(j)
    \/ \E j \in Jobs : DrainResume(j)
    \/ Tick

Spec == Init /\ [][Next]_vars

\* The event loop keeps taking steps: a due timer fires, a resumed thunk or
\* drain loop runs, the clock advances; and every started operation
\* eventually settles.  Nothing obliges anybody to submit.
Fairness ==
    /\ WF_vars(Tick)
    /\ \A j \in Jobs :
         /\ WF_vars(TimerFire(j))
         /\ WF_vars(\E o \in Outcomes(j) : OpSettle(j, o))
         /\ WF_vars(ThunkResume(j))
         /\ WF_vars(DrainResume(j))

FairSpec == Spec /\ Fairness

\* The request queue with the submission times observed.
WaitInit == ExecutorInit /\ observeWait = TRUE /\ OutsideIdle
WaitSpec == WaitInit /\ [][Next]_vars

TypeOK ==
    /\ clock \in Nat
    /\ lastRequestTime \in Nat
    /\ isProcessingQueue \in BOOLEAN
    /\ \A i \in 1..Len(pendingRequests) : pendingRequests[i] \in Jobs
    /\ \A j \in Jobs : promise[j] \in Outcomes(j) \cup {Pending}

\* ---- properties ----------------------------------------------------------

\* The job a step submits (None when the step is no submit).
NewJob == IF Cardinality(Submitted') > Cardinality(Submitted)
            THEN Cardinality(Submitted) + 1 ELSE None
LastStarted == startSeq[Len(startSeq)]

\* C1 - mutual exclusion: at most one submitted operation is between its
\* invocation and its settlement at any time.
C1_MutualExclusion == Cardinality(Running) <= 1

\* A second or later operation runs while another job, submitted while an
\* earlier operation ran, still waits in the queue.
C1_Witness ==
    /\ Len(startSeq) >= 2
    /\ Running # {}
    /\ \E i \in 1..Len(pendingRequests) : runningAtSubmit[pendingRequests[i]] # None

\* C2 - minimum spacing: any two consecutive invocations of operations are
\* at least API_COOLDOWN_MS apart, whether the earlier job succeeded or
\* failed.  (Stated on the last two invocations of every reachable state.)
C2_MinimumSpacing ==
    prevStartTime # None => lastStartTime - prevStartTime >= API_COOLDOWN_MS

\* C3 - FIFO start order: operations are invoked in the order their jobs
\* were submitted (jobs are numbered in submission order).
C3_FifoStartOrder == \A i \in 1..Len(startSeq) : startSeq[i] = i

\* Two jobs were submitted while the first one ran, so before either of
\* them had started, and all three have started.
C3_Witness ==
    /\ Len(startSeq) >= 3
    /\ runningAtSubmit[2] = 1
    /\ runningAtSubmit[3] = 1

\* C4 (as claimed) - deferred invocation: the step that submits a job never
\* invokes that job's operation.
C4_DeferredInvocation ==
    [][NewJob # None => NewJob \notin Started']_vars

\* C4 (amended) - the submit call invokes the operation itself exactly when
\* no drain loop is active and the cooldown has elapsed; in every other
\* executor state the invocation happens in a later step.
C4_SyncOnlyWhenIdleAndCool ==
    [][NewJob # None =>
         (NewJob \in Started' <=>
            (~isProcessingQueue /\ lastRequestTime + API_COOLDOWN_MS <= clock))]_vars

\* After an earlier job, a submit has invoked its operation on the spot,
\* and another job submitted while an operation ran has been deferred.
C4_Witness ==
    /\ Len(startSeq) >= 2
    /\ lastStartInSubmit
    /\ \E j \in Jobs : runningAtSubmit[j] # None

\* C5 - outcome isolation: the thunk of a failed job rejects that job's
\* promise only, leaves every other promise and the queue as they are, and
\* the drain loop then dequeues and runs the head of the queue.
C5_OutcomeIsolation ==
    [][\A j \in Jobs :
         /\ (jobState[j] = "opSettled" /\ opResult[j].kind = "error"
                /\ jobState'[j] # "opSettled") =>
               /\ promise'[j] = opResult[j]
               /\ \A k \in Jobs \ {j} : promise'[k] = promise[k]
               /\ pendingRequests' = pendingRequests
               /\ jobState'[j] = "thunkDone"
         /\ (jobState[j] = "thunkDone" /\ promise[j].kind = "error"
                /\ jobState'[j] # "thunkDone" /\ pendingRequests # <<>>) =>
               /\ pendingRequests' = Tail(pendingRequests)
               /\ jobState'[Head(pendingRequests)] \in {"cooldown", "running"}
               /\ isProcessingQueue'
       ]_vars

\* Job 1 succeeded, job 2 failed with job 3 queued behind it, and job 3's
\* operation has been invoked all the same.
C5_Witness ==
    /\ promise[1].kind = "value"
    /\ promise[2].kind = "error"
    /\ runningAtSubmit[3] = 2
    /\ 3 \in Started

\* C6 - transparent pass-through: a job's promise is settled at most once,
\* stays pending until its own thunk has resumed, and then holds exactly
\* the value or the error its own operation settled with.
C6_PassThrough ==
    \A j \in Jobs :
      /\ deliveries[j] <= 1
      /\ jobState[j] \in {"thunkDone", "done"} =>
           /\ deliveries[j] = 1
           /\ promise[j] = opResult[j]
           /\ promise[j] \in Outcomes(j)
      /\ jobState[j] \notin {"thunkDone", "done"} =>
           /\ deliveries[j] = 0
           /\ promise[j] = Pending

\* One job has been fulfilled and another rejected.
C6_Witness ==
    \E j, k \in Jobs : promise[j].kind = "value" /\ promise[k].kind = "error"

\* C7 - idle restart: a submit that finds the drain loop ended (queue
\* drained, no thunk alive) finds the flag cleared, sets it again and
\* starts a new drain loop on its job; and that job's operation is
\* eventually invoked.
C7_IdleRestart ==
    /\ [][(NewJob # None /\ InDrain = {} /\ Len(startSeq) >= 1) =>
            /\ pendingRequests = <<>>
            /\ ~isProcessingQueue
            /\ isProcessingQueue'
            /\ NewJob \in InDrain']_vars
    /\ \A j \in Jobs : (restartJob = j) ~> (j \in Started)

\* A job submitted after a drain loop had ended has had its operation
\* invoked.
C7_Witness == restartJob # None /\ restartJob \in Started

\* C8 - no starvation: with every started operation settling and the event
\* loop taking its steps, every submitted job eventually has its operation
\* invoked.
C8_NoStarvation == \A j \in Jobs : (j \in Submitted) ~> (j \in Started)

\* A job that had to queue behind a running operation, and then to wait
\* out a cooldown, has started.
C8_Witness ==
    /\ Len(startSeq) >= 2
    /\ runningAtSubmit[LastStarted] # None
    /\ lastWait > 0

\* C9 (as claimed) - the cooldown clock records start times: once an
\* operation has been invoked, lastRequestTime is the time of the last
\* invocation.
C9_ClockRecordsStart ==
    Len(startSeq) >= 1 => lastRequestTime = lastStartTime

\* C9 (amended) - the cooldown clock records successful completions:
\* lastRequestTime is the time at which a thunk last resumed with a value
\* (0 before any success), hence never earlier than the settlement of the
\* last successful operation; and a cooldown timer is set to that time plus
\* API_COOLDOWN_MS.
C9_ClockRecordsSuccessfulCompletion ==
    /\ lastRequestTime = lastSuccessDone
    /\ (lastSettled.kind = "value"
          /\ jobState[lastSettled.job] \in {"thunkDone", "done"}) =>
            lastRequestTime >= lastSettled.settle
    /\ (lastSettled.kind = "error" /\ lastSettled.job = LastStarted) =>
            lastRequestTime <= lastSettled.start
    /\ \A j \in Jobs : jobState[j] = "cooldown" =>
            /\ lastWait > 0
            /\ timerDue[j] = lastSuccessDone + API_COOLDOWN_MS

\* An operation that ran for some time has succeeded, a later one has
\* failed, and a job waits out the cooldown counted from the success.
C9_Witness ==
    /\ lastSuccessDone > BootTime
    /\ \E j \in Jobs : promise[j].kind = "error"
    /\ \E j \in Jobs : jobState[j] = "cooldown"

\* Job B = LastStarted was submitted while job A ran, A's operation took at
\* least the cooldown to settle, and B is the job started next after A.
SlowThenQueued ==
    /\ Len(startSeq) >= 2
    /\ lastSettled.job = LastStarted - 1
    /\ runningAtSubmit[LastStarted] = lastSettled.job
    /\ lastSettled.settle - lastSettled.start >= API_COOLDOWN_MS

\* C10 (as claimed) - slow job followed by a queued job: B's operation is
\* invoked when the drain loop resumes after A's settlement, with no
\* additional cooldown wait.
C10_SlowJobNoExtraWait == SlowThenQueued => lastWait = 0

\* C10 (amended) - if A succeeded, B's operation is invoked no earlier
\* than A's settlement + 500 ms; only if A failed is B's operation invoked
\* without any cooldown wait.
C10_SlowJobThenCooldownUnlessFailed ==
    SlowThenQueued =>
        IF lastSettled.kind = "value"
          THEN lastStartTime >= lastSettled.settle + API_COOLDOWN_MS
          ELSE lastWait = 0

\* The case with a successful slow job A, B having waited out a cooldown.
C10_Witness == SlowThenQueued /\ lastSettled.kind = "value" /\ lastWait > 0

\* C11 - stall on a non-settling operation: as long as an operation stays
\* unsettled no other operation is invoked, the flag stays set and nothing
\* is delivered for the stalled job (no timeout, no cancellation, no
\* report); so if it never settles, no later job is ever started and
\* isProcessingQueue stays true forever.
C11_StallBehindRunning ==
    /\ [][\A j \in Jobs :
            (jobState[j] = "running" /\ jobState'[j] = "running") =>
               /\ startSeq' = startSeq
               /\ isProcessingQueue /\ isProcessingQueue'
               /\ opResult'[j] = Pending
               /\ promise'[j] = Pending
               /\ deliveries'[j] = 0]_vars
    /\ \A j \in Jobs :
         <>[](jobState[j] = "running") =>
            /\ <>[]isProcessingQueue
            /\ [](\A k \in Jobs : k > j => k \notin Started)

\* An operation has been running for two cooldowns and more, with a job
\* submitted during its run still in the queue.
C11_Witness ==
    /\ Running # {}
    /\ clock - lastStartTime >= 2 * API_COOLDOWN_MS
    /\ \E i \in 1..Len(pendingRequests) :
          runningAtSubmit[pendingRequests[i]] = LastStarted

\* C12 - single drain loop: at most one processRequestQueue chain is alive
\* at any time, and a submit that arrives between a job's settlement and
\* the drain loop's next iteration only enqueues.
C12_SingleDrainLoop ==
    /\ [](Cardinality(InDrain) <= 1)
    /\ [][(NewJob # None
             /\ \E j \in Jobs : jobState[j] \in {"opSettled", "thunkDone"}) =>
            /\ InDrain' = InDrain
            /\ jobState'[NewJob] = "queued"]_vars

\* A job was invoked inside its own submit call, has settled and been
\* delivered, and before the drain loop's next iteration the queue holds a
\* job that was not submitted while the operation ran: it was submitted
\* after the settlement.
C12_Witness ==
    /\ Len(startSeq) >= 1
    /\ jobState[LastStarted] = "thunkDone"
    /\ lastStartInSubmit
    /\ \E i \in 1..Len(pendingRequests) :
          runningAtSubmit[pendingRequests[i]] = None

\* C13 - idle-state invariant: while isProcessingQueue is false the queue
\* is empty and no job waits out a cooldown, runs or awaits its
\* continuation; and the flag is cleared only by a drain loop that resumes
\* and finds the queue empty.
C13_IdleState ==
    /\ [](~isProcessingQueue => (pendingRequests = <<>> /\ InDrain = {}))
    /\ [][(isProcessingQueue /\ ~isProcessingQueue') =>
            /\ pendingRequests = <<>>
            /\ \E j \in Jobs : jobState[j] = "thunkDone" /\ jobState'[j] = "done"]_vars

\* The executor is idle again after a drain loop has run two jobs.
C13_Witness == ~isProcessingQueue /\ Len(startSeq) >= 2

\* C16 - ordered settlement: a job's promise is never settled while the
\* promise of a job submitted before it is still pending.
C16_OrderedSettlement ==
    \A i, j \in Jobs : (i < j /\ promise[j] # Pending) => promise[i] # Pending

\* Three promises have been settled, successes and failures mixed.
C16_Witness ==
    /\ \A j \in 1..3 : promise[j] # Pending
    /\ \E j, k \in 1..3 : promise[j].kind = "value" /\ promise[k].kind = "error"

\* C14 (as claimed) - non-blocking submission: in every executor state the
\* submit call only appends its job at the tail of the queue and returns a
\* pending promise, the clock not having advanced.
C14_SubmitOnlyAppends ==
    [][NewJob # None =>
         /\ pendingRequests' = Append(pendingRequests, NewJob)
         /\ promise'[NewJob] = Pending
         /\ clock' = clock]_vars

\* C14 (amended) - executeWithRateLimit can be called in every executor
\* state and returns a pending promise without the clock advancing and
\* without any promise being settled or any other job moving; while a drain
\* loop is active it only appends the job at the tail of the queue; when
\* the executor is idle it also starts the drain loop, which takes the job
\* off the queue at once.
C14_NonBlockingSubmit ==
    /\ [](Cardinality(Submitted) < MaxJobs => ENABLED Submit)
    /\ [][NewJob # None =>
            /\ clock' = clock
            /\ promise' = promise /\ promise[NewJob] = Pending
            /\ \A k \in Jobs \ {NewJob} : jobState'[k] = jobState[k]
            /\ IF isProcessingQueue
                 THEN /\ pendingRequests' = Append(pendingRequests, NewJob)
                      /\ jobState'[NewJob] = "queued"
                 ELSE /\ pendingRequests' = pendingRequests
                      /\ jobState'[NewJob] \in {"cooldown", "running"}
                      /\ isProcessingQueue']_vars

\* Job 1 was submitted to the idle executor and ran, job 2 was submitted to
\* the executor idle again and waits out its cooldown, and job 3 was
\* submitted during that wait.
C14_Witness ==
    /\ restartJob = 2
    /\ jobState[2] = "cooldown"
    /\ pendingRequests = <<3>>

\* The job submitted last is also the job invoked last.
LastSubmitted == Cardinality(Submitted)
LastSubmittedStarted ==
    /\ observeWait
    /\ Len(startSeq) >= 1
    /\ LastStarted = LastSubmitted

\* C15 (as claimed) - bounded wait: a job with k jobs ahead of it at its
\* submission has its operation invoked no later than k x cooldown after
\* the submission.
C15_BoundedWait ==
    LastSubmittedStarted =>
        lastStartTime - lastSubmitTime <= lastSubmitAhead * API_COOLDOWN_MS

\* C15 (amended) - k x cooldown is a lower bound, not an upper bound: a job
\* with k jobs ahead of it is invoked only after all of them have been
\* delivered and, when these k jobs all succeeded, no earlier than
\* k x cooldown after its submission.
C15_WaitAtLeastCooldowns ==
    LastSubmittedStarted =>
        /\ \A i \in Jobs : i < LastSubmitted => jobState[i] = "done"
        /\ (\A i \in Jobs : (LastSubmitted - lastSubmitAhead <= i /\ i < LastSubmitted)
                               => promise[i].kind = "value") =>
             lastStartTime - lastSubmitTime >= lastSubmitAhead * API_COOLDOWN_MS

\* A job submitted behind two others, both of which succeeded, has been
\* invoked.
C15_Witness ==
    /\ LastSubmittedStarted
    /\ lastSubmitAhead = 2
    /\ promise[LastSubmitted - 1].kind = "value"
    /\ promise[LastSubmitted - 2].kind = "value"

\* ======================================================================
\* The exported fetch functions of src/api
\* ======================================================================

\* The exported fetch functions of jikanApi.ts.
JikanApiFns ==
    { "jikanApi.fetchAnimeList", "jikanApi.fetchAnimeDetails",
      "jikanApi.fetchSeasonalAnime", "jikanApi.fetchTopAnime",
      "jikanApi.fetchAnimeRecommendations", "jikanApi.searchAnime",
      "jikanApi.fetchAnimeStaff", "jikanApi.fetchRelatedAnime",
      "jikanApi.fetchAnimeReviews", "jikanApi.fetchUpcomingAnime",
      "jikanApi.fetchAiringAnime", "jikanApi.fetchAnimeByGenre",
      "jikanApi.fetchPopularAnime" }

\* The exported fetch functions of animeApi.ts.
AnimeApiFns ==
    { "animeApi.fetchAnimeList", "animeApi.fetchAnimeDetails",
      "animeApi.fetchSuggestions" }

\* Every exported function that sends a request to api.jikan.moe.
ExportedFetchFns == JikanApiFns \cup AnimeApiFns

\* Whether the body of f is an operation handed to executeWithRateLimit
\* (jikanApi.ts) or calls axios.get in the function itself (animeApi.ts).
ViaExecutor(f) == f \in JikanApiFns

\* What the catch block of f does with a failed axios.get.
OnHttpFailure_AllRethrow(f) == "rejected"

OnHttpFailure(f) ==
    CASE f = "jikanApi.fetchAnimeDetails" -> "rejected"   \* throw error
      [] f \in AnimeApiFns                -> "rejected"   \* throw new Error(...)
      [] OTHER                            -> "empty"      \* return { data: [] ... }

\* What the promise returned by f settles with, given the HTTP outcome.
FetchResult(f, http) ==
    IF http = "ok" THEN "data" ELSE OnHttpFailure(f)

HttpOutcomes == {"ok", "failed"}

ClientCallIds == 1..Len(clientCalls)

\* A call whose request is on the wire from inside an executor operation.
OperationRunning ==
    \E i \in ClientCallIds :
        clientCalls[i].inOperation /\ clientCalls[i].pos = "requesting"

\* f is called. A jikanApi function only hands its body to the executor; an
\* animeApi function reaches axios.get before it returns.
ClientCall(f) ==
    /\ Len(clientCalls) < MaxClientCalls
    /\ clientCalls' = Append(clientCalls,
           [ fn          |-> f,
             pos         |-> IF ViaExecutor(f) THEN "queued" ELSE "requesting",
             inOperation |-> FALSE,
             http        |-> "none",
             result      |-> "pending" ])
    /\ UNCHANGED <<vars, waitVars, storage, histCalls, appVars>>

\* The executor invokes the operation of the oldest queued call, one
\* operation at a time; the operation calls axios.get.
ClientOperationStart(i) ==
    /\ clientCalls[i].pos = "queued"
    /\ ~OperationRunning
    /\ \A k \in 1..(i - 1) : clientCalls[k].pos # "queued"
    /\ clientCalls' = [clientCalls EXCEPT ![i].pos = "requesting",
                                          ![i].inOperation = TRUE]
    /\ UNCHANGED <<vars, waitVars, storage, histCalls, appVars>>

\* The HTTP request of call i succeeds or fails; the function's try/catch
\* turns the outcome into the settlement of the promise it returned.
ClientHttpSettle(i, http) ==
    /\ clientCalls[i].pos = "requesting"
    /\ clientCalls' = [clientCalls EXCEPT
           ![i].pos = "returned",
           ![i].http = http,
           ![i].result = FetchResult(clientCalls[i].fn, http)]
    /\ UNCHANGED <<vars, waitVars, storage, histCalls, appVars>>

ClientNext ==
    \/ \E f \in ExportedFetchFns : ClientCall(f)
    \/ \E i \in ClientCallIds : ClientOperationStart(i)
    \/ \E i \in ClientCallIds : \E http \in HttpOutcomes : ClientHttpSettle(i, http)

ClientSpec == Init /\ [][ClientNext]_clientCalls

ClientTypeOK ==
    /\ Len(clientCalls) <= MaxClientCalls
    /\ \A i \in ClientCallIds :
         /\ clientCalls[i].fn \in ExportedFetchFns
         /\ clientCalls[i].pos \in {"queued", "requesting", "returned"}
         /\ clientCalls[i].inOperation \in BOOLEAN
         /\ clientCalls[i].http \in HttpOutcomes \cup {"none"}
         /\ clientCalls[i].result \in {"pending", "data", "empty", "rejected"}

\* ---- C17 ---------------------------------------------------------------
\* C17 - every HTTP request to api.jikan.moe is made from inside an
\* operation run by executeWithRateLimit: no exported function sends its
\* request outside the queue.
C17_AllRequestsThroughExecutor ==
    \A i \in ClientCallIds :
        clientCalls[i].pos # "queued" => clientCalls[i].inOperation

\* ---- C18 ---------------------------------------------------------------
\* C18 (as claimed) - degrade to empty: every exported fetch function of
\* jikanApi.ts whose HTTP call failed resolves with an empty result set.
C18_EveryFetchDegradesToEmpty ==
    \A i \in ClientCallIds :
        (clientCalls[i].fn \in JikanApiFns /\ clientCalls[i].http = "failed")
            => clientCalls[i].result = "empty"

\* C18 (amended) - every exported fetch function of jikanApi.ts except
\* fetchAnimeDetails resolves with an empty result set when its HTTP call
\* failed; fetchAnimeDetails rejects.
C18_DegradeExceptDetails ==
    \A i \in ClientCallIds :
        (clientCalls[i].fn \in JikanApiFns /\ clientCalls[i].http = "failed")
            => clientCalls[i].result =
                   IF clientCalls[i].fn = "jikanApi.fetchAnimeDetails"
                     THEN "rejected" ELSE "empty"

C18_Witness ==
    /\ Len(clientCalls) = 2
    /\ clientCalls[1].fn = "jikanApi.fetchTopAnime"
    /\ clientCalls[1].http = "failed"
    /\ clientCalls[1].result = "empty"
    /\ clientCalls[2].fn = "jikanApi.fetchAnimeDetails"
    /\ clientCalls[2].http = "failed"
    /\ clientCalls[2].result = "rejected"

\* ======================================================================
\* The search history (src/unnamed/part_005)
\* ======================================================================
\* A string is the sequence of its characters; the stored item is the JSON
\* text of an array of strings.

MAX_HISTORY_ITEMS == 10

histVars == <<storage, histCalls>>

\* String.prototype.toLowerCase, on the letters the model uses.
LowerChar(ch) ==
    CASE ch = "A" -> "a"
      [] ch = "B" -> "b"
      [] OTHER    -> ch

ToLowerCase(str) == [i \in DOMAIN str |-> LowerChar(str[i])]

\* String.prototype.trim: white space removed at both ends.
RECURSIVE Trim(_)
Trim(str) ==
    IF str = <<>> THEN <<>>
    ELSE IF Head(str) = " " THEN Trim(Tail(str))
    ELSE IF str[Len(str)] = " " THEN Trim(SubSeq(str, 1, Len(str) - 1))
    ELSE str

\* Array.prototype.slice(0, n).
Slice(list, n) == SubSeq(list, 1, IF Len(list) < n THEN Len(list) ELSE n)

\* JSON.stringify of an array of strings, and JSON.parse of such a text.
JSONStringify(list) == [set |-> TRUE, text |-> list]
JSONParse(item) == item.text

\* getSearchHistory: the parsed item, [] when the item is not set or the
\* read failed.
GetSearchHistory(item, readOk) ==
    IF readOk /\ item.set THEN JSONParse(item) ELSE <<>>

\* The list the stored item stands for.
StoredList == GetSearchHistory(storage, TRUE)

\* history.filter(item => item.toLowerCase() !== query.toLowerCase())
FilteredHistory_CaseSensitive(history, query) ==
    LET Keep(item) == item # query
    IN  SelectSeq(history, Keep)

FilteredHistory(history, query) ==
    LET Keep(item) == ToLowerCase(item) # ToLowerCase(query)
    IN  SelectSeq(history, Keep)

\* [query, ...filteredHistory].slice(0, MAX_HISTORY_ITEMS)
NewHistory_AtEnd(history, query) ==
    Slice(Append(FilteredHistory(history, query), query), MAX_HISTORY_ITEMS)

NewHistory(history, query) ==
    Slice(<<query>> \o FilteredHistory(history, query), MAX_HISTORY_ITEMS)

\* history.filter(item => item !== query)
RemovedHistory(history, query) ==
    LET Keep(item) == item # query
    IN  SelectSeq(history, Keep)

\* The queries the callers pass, and a full history of ten entries.
Queries == { <<"a">>, <<"A">>, <<"a", "B">>, <<" ">> }

FullHistory ==
    << <<"a">>, <<"c">>, <<"d">>, <<"e">>, <<"f">>,
       <<"g">>, <<"h">>, <<"i">>, <<"j">>, <<"k">> >>

HistOps == {"add", "remove", "clear"}

\* The first synchronous part of a call: addToSearchHistory returns at once
\* for a blank query; add and remove start reading the item; clear starts
\* removing it.
HistCall(c, op, query) ==
    /\ histCalls[c].pc = "idle"
    /\ \A k \in 1..(c - 1) : histCalls[k].pc # "idle"
    /\ histCalls' = [histCalls EXCEPT ![c] =
           [ op    |-> op,
             query |-> IF op = "clear" THEN <<>> ELSE query,
             pc    |-> CASE op = "clear" -> "remove"
                         [] op = "add" /\ Trim(query) = <<>> -> "done"
                         [] OTHER -> "read",
             local |-> <<>>,
             readOk |-> FALSE,
             ok    |-> FALSE ]]
    /\ UNCHANGED <<storage, vars, waitVars, clientCalls, appVars>>

\* await getSearchHistory() resumes with the list read.
HistRead(c, readOk) ==
    /\ histCalls[c].pc = "read"
    /\ histCalls' = [histCalls EXCEPT
           ![c].pc = "write",
           ![c].readOk = readOk,
           ![c].local = GetSearchHistory(storage, readOk)]
    /\ UNCHANGED <<storage, vars, waitVars, clientCalls, appVars>>

\* AsyncStorage.setItem of the new list; a failure is caught and logged.
HistWrite(c, writeOk) ==
    /\ histCalls[c].pc = "write"
    /\ LET newHistory ==
               IF histCalls[c].op = "add"
                 THEN NewHistory(histCalls[c].local, histCalls[c].query)
                 ELSE RemovedHistory(histCalls[c].local, histCalls[c].query)
       IN  storage' = IF writeOk THEN JSONStringify(newHistory) ELSE storage
    /\ histCalls' = [histCalls EXCEPT ![c].pc = "done", ![c].ok = writeOk]
    /\ UNCHANGED <<vars, waitVars, clientCalls, appVars>>

\* AsyncStorage.removeItem; a failure is caught and logged.
HistRemoveItem(c, removeOk) ==
    /\ histCalls[c].pc = "remove"
    /\ storage' = IF removeOk THEN Null ELSE storage
    /\ histCalls' = [histCalls EXCEPT ![c].pc = "done", ![c].ok = removeOk]
    /\ UNCHANGED <<vars, waitVars, clientCalls, appVars>>

HistNext ==
    \/ \E c \in HistCallIds : \E op \in HistOps : \E query \in Queries :
           HistCall(c, op, query)
    \/ \E c \in HistCallIds : \E readOk \in BOOLEAN : HistRead(c, readOk)
    \/ \E c \in HistCallIds : \E writeOk \in BOOLEAN : HistWrite(c, writeOk)
    \/ \E c \in HistCallIds : \E removeOk \in BOOLEAN : HistRemoveItem(c, removeOk)

\* The history is empty at first use, or holds ten entries from earlier use.
HistInit ==
    /\ ExecutorInit
    /\ observeWait = FALSE
    /\ clientCalls = <<>>
    /\ storage \in {Null, JSONStringify(FullHistory)}
    /\ histCalls = [c \in HistCallIds |-> NoCall]
    /\ AppIdle

HistSpec == HistInit /\ [][HistNext]_histVars

HistTypeOK ==
    /\ storage.set \in BOOLEAN
    /\ Len(StoredList) <= MAX_HISTORY_ITEMS
    /\ \A c \in HistCallIds :
         /\ histCalls[c].op \in HistOps \cup {"none"}
         /\ histCalls[c].pc \in {"idle", "read", "write", "remove", "done"}
         /\ histCalls[c].ok \in BOOLEAN

\* ---- C19 ---------------------------------------------------------------
\* No two entries of a list are equal ignoring letter case.
NoCaseDuplicates(list) ==
    \A i, k \in DOMAIN list :
        i # k => ToLowerCase(list[i]) # ToLowerCase(list[k])

\* C19 - under any sequence and interleaving of addToSearchHistory,
\* removeFromSearchHistory and clearSearchHistory calls, storage failures
\* included, the stored list never holds two entries that are equal
\* ignoring letter case.
C19_NoCaseDuplicates == NoCaseDuplicates(StoredList)

\* "a" and "A" were both added to a history that held "a", both writes
\* succeeded, and "A" is the entry that stands first.
C19_Witness ==
    /\ histCalls[1].op = "add" /\ histCalls[1].query = <<"a">>
    /\ histCalls[2].op = "add" /\ histCalls[2].query = <<"A">>
    /\ histCalls[1].pc = "done" /\ histCalls[1].ok
    /\ histCalls[2].pc = "done" /\ histCalls[2].ok
    /\ histCalls[2].local = FullHistory
    /\ Len(StoredList) = MAX_HISTORY_ITEMS
    /\ Head(StoredList) = <<"A">>

\* ---- C20 ---------------------------------------------------------------
\* Call c completes an add in this step: its write succeeded, and the list
\* it read is the list stored now (no other call changed it in between).
AddCompletes(c) ==
    /\ histCalls[c].op = "add"
    /\ histCalls[c].pc = "write"
    /\ histCalls'[c].pc = "done"
    /\ histCalls'[c].ok
    /\ histCalls[c].local = StoredList

\* C20 (as claimed) - after addToSearchHistory(q) for a non-blank q, q is
\* first, the previously stored entries other than q follow in their
\* previous order, and the list is cut to 10 entries.
C20_MostRecentFirst ==
    [][\A c \in HistCallIds :
          AddCompletes(c) =>
              LET OtherThanQ(item) == item # histCalls[c].query
              IN  /\ Head(StoredList') = histCalls[c].query
                  /\ Tail(StoredList') =
                         Slice(SelectSeq(StoredList, OtherThanQ),
                               MAX_HISTORY_ITEMS - 1)]_histVars

\* C20 (amended) - after addToSearchHistory(q) for a non-blank q, q is
\* first, the previously stored entries that differ from q even when letter
\* case is ignored follow in their previous order, and the list is cut to
\* 10 entries.
C20_MostRecentFirstIgnoringCase ==
    [][\A c \in HistCallIds :
          AddCompletes(c) =>
              LET q == histCalls[c].query
                  others == { i \in DOMAIN StoredList :
                                ToLowerCase(StoredList[i]) # ToLowerCase(q) }
                  new == StoredList'
              IN  /\ Trim(q) # <<>>
                  /\ new[1] = q
                  /\ Len(new) = Max(1, IF Cardinality(others) + 1 < MAX_HISTORY_ITEMS
                                          THEN Cardinality(others) + 1
                                          ELSE MAX_HISTORY_ITEMS)
                  \* the entries after q are the first of the others, in order
                  /\ \A n \in 2..Len(new) :
                        \E i \in others :
                            /\ new[n] = StoredList[i]
                            /\ Cardinality({k \in others : k < i}) = n - 2]_histVars

\* "aB" was added to the full history (cutting "k"), then "A" (replacing
\* "a").
C20_Witness ==
    /\ histCalls[1].op = "add" /\ histCalls[1].pc = "done" /\ histCalls[1].ok
    /\ histCalls[2].op = "add" /\ histCalls[2].pc = "done" /\ histCalls[2].ok
    /\ histCalls[2].local = <<histCalls[1].query>> \o SubSeq(FullHistory, 1, 9)
    /\ StoredList = << <<"A">>, <<"a", "B">> >> \o SubSeq(FullHistory, 2, 9)

\* ---- C27 ---------------------------------------------------------------
\* C27 - cooldown after a successful job: a step that invokes an operation
\* while the operation that settled last succeeded, at time s, happens no
\* earlier than s + API_COOLDOWN_MS, whatever the time that operation took.
C27_CooldownAfterSuccess ==
    [][(Len(startSeq') > Len(startSeq) /\ lastSettled.kind = "value")
          => clock' >= lastSettled.settle + API_COOLDOWN_MS]_vars

\* A job whose operation succeeded in less than the cooldown was followed
\* by the next job, which had been waiting in the queue.
C27_Witness ==
    /\ Len(startSeq) >= 2
    /\ lastSettled.job = LastStarted - 1
    /\ lastSettled.kind = "value"
    /\ lastSettled.settle - lastSettled.start < API_COOLDOWN_MS
    /\ runningAtSubmit[LastStarted] = lastSettled.job

\* ---- C28 ---------------------------------------------------------------
\* The thunk of job j resumes in this step with a rejection.
ThunkRejects(j) ==
    /\ jobState[j] = "opSettled"
    /\ jobState'[j] = "thunkDone"
    /\ opResult[j].kind = "error"

\* C28 - a failing job leaves the cooldown clock untouched: lastRequestTime
\* changes only in a step in which a thunk resumes with a value, so from
\* the dequeue of a job to its rejection the clock keeps its value; the
\* rejecting step changes that job's promise alone.
C28_FailureLeavesClock ==
    [][/\ lastRequestTime' # lastRequestTime =>
             \E j \in Jobs : /\ jobState[j] = "opSettled"
                             /\ jobState'[j] = "thunkDone"
                             /\ opResult[j].kind = "value"
       /\ \A j \in Jobs : ThunkRejects(j) =>
             /\ lastRequestTime' = lastRequestTime
             /\ pendingRequests' = pendingRequests
             /\ isProcessingQueue' = isProcessingQueue
             /\ promise' = [promise EXCEPT ![j] = opResult[j]]
             /\ j \notin {pendingRequests[i] : i \in 1..Len(pendingRequests)}]_vars

\* A job succeeded, the next one ran for some time and was rejected: the
\* clock still shows the completion of the first.
C28_Witness ==
    \E j \in Jobs :
        /\ j >= 2
        /\ promise[j - 1].kind = "value"
        /\ promise[j].kind = "error"
        /\ lastSettled.job = j
        /\ lastSettled.settle > lastSettled.start
        /\ lastRequestTime = lastSuccessDone
        /\ lastRequestTime < lastSettled.start

\* ---- C29 ---------------------------------------------------------------
\* Call c is an add of a non-blank query that has completed with its read
\* and its write both successful, on a history of fewer than 9 entries.
AddDone(c) ==
    /\ histCalls[c].op = "add"
    /\ Trim(histCalls[c].query) # <<>>
    /\ histCalls[c].pc = "done"
    /\ histCalls[c].readOk
    /\ histCalls[c].ok
    /\ Len(histCalls[c].local) < MAX_HISTORY_ITEMS - 1

\* The entries of a list.
Entries(list) == {list[i] : i \in DOMAIN list}

\* C29 - no lost search-history update: when two addToSearchHistory calls
\* for distinct non-blank queries have both completed, the stored history
\* contains both queries, however their reads and writes interleaved.
C29_NoLostUpdate ==
    (/\ AddDone(1)
     /\ AddDone(2)
     /\ ToLowerCase(histCalls[1].query) # ToLowerCase(histCalls[2].query))
        => {histCalls[1].query, histCalls[2].query} \subseteq Entries(StoredList)

\* ======================================================================
\* The server connection at start-up
\* (App.tsx initialize, wakeServer, checkServerHealth)
\* ======================================================================

\* wakeServer(serverUrl, 5, 10000, updateProgress) in App.initialize.
AppMaxAttempts == 5

\* What axios.get hands back: a response with status 200, a response with
\* another 2xx status (axios resolves for every 2xx status), or a rejection
\* (network error, timeout, status outside 2xx).
HttpStatuses == {"200", "2xx", "error"}

\* The answers a request to the target can get: a request to an undefined
\* URL is rejected.
Answers(to) ==
    IF to = "remote" /\ ~remoteUrlSet THEN {"error"} ELSE HttpStatuses

\* Entries of connLog.
Request(by, to, n) ==
    [ev |-> "request", by |-> by, to |-> to, n |-> n, status |-> "none"]
Response(by, to, n, status) ==
    [ev |-> "response", by |-> by, to |-> to, n |-> n, status |-> status]
Progress(n) ==
    [ev |-> "progress", by |-> "wake", to |-> "none", n |-> n, status |-> "none"]
Delay(n) ==
    [ev |-> "delay", by |-> "wake", to |-> "none", n |-> n, status |-> "none"]

\* (mutant) a status 200 does not end the loop.
WakeReturnsOn_Never(status) == FALSE

\* Lines 95 and 130 of wakeServer: `if (response.status === 200) return`.
WakeReturnsOn(status) == status = "200"

\* (mutant) the delay is taken after the last attempt too.
WaitsBeforeNext_Always(attempt, maxAttempts) == TRUE

\* Line 111: `if (attempt <= maxAttempts) await delay(delayMs)`, with
\* attempt already incremented.
WaitsBeforeNext(attempt, maxAttempts) == attempt <= maxAttempts

\* wakeServer at the head of its while loop with the given attempt number
\* (lines 83-93), or past the loop at the local fallback (lines 118-128):
\* it runs up to its next await.
WakeLoopHead(by, attempt, maxAttempts, log) ==
    IF attempt <= maxAttempts
      THEN /\ wake' = [pc |-> "request", by |-> by, attempt |-> attempt,
                       maxAttempts |-> maxAttempts, success |-> FALSE]
           /\ connLog' = log \o <<Progress(attempt),
                                  Request("wake", "remote", attempt)>>
      ELSE /\ wake' = [pc |-> "localRequest", by |-> by, attempt |-> attempt,
                       maxAttempts |-> maxAttempts, success |-> FALSE]
           /\ connLog' = log \o <<Progress(maxAttempts + 1),
                                  Request("wake", "local", maxAttempts + 1)>>

\* App.initialize (lines 65-85): the app starts and calls wakeServer with
\* the remote URL.
AppInitialize ==
    /\ init = "idle"
    /\ wake.pc = "idle"
    /\ health.pc = "idle"
    /\ init' = "preheating"
    /\ WakeLoopHead("app", 1, AppMaxAttempts, connLog)
    /\ UNCHANGED <<remoteUrlSet, API_URL, health>>
    /\ UNCHANGED <<vars, waitVars, clientCalls, storage, histCalls,
                   donationVars, watchVars>>

\* wakeServer called by other code, with any number of attempts.
WakeServerCall(maxAttempts) ==
    /\ init = "idle"
    /\ wake.pc = "idle"
    /\ health.pc = "idle"
    /\ WakeLoopHead("direct", 1, maxAttempts, connLog)
    /\ UNCHANGED <<remoteUrlSet, API_URL, init, health>>
    /\ UNCHANGED <<vars, waitVars, clientCalls, storage, histCalls,
                   donationVars, watchVars>>

\* Lines 93-113: the request of the current attempt settles.
WakeResponse(status) ==
    /\ wake.pc = "request"
    /\ status \in Answers("remote")
    /\ LET log == Append(connLog, Response("wake", "remote", wake.attempt, status))
       IN  IF WakeReturnsOn(status)
             THEN /\ wake' = [wake EXCEPT !.pc = "returned", !.success = TRUE]
                  /\ connLog' = log
             ELSE IF WaitsBeforeNext(wake.attempt + 1, wake.maxAttempts)
                    THEN /\ wake' = [wake EXCEPT !.pc = "delay", !.attempt = @ + 1]
                         /\ connLog' = Append(log, Delay(wake.attempt))
                    ELSE WakeLoopHead(wake.by, wake.attempt + 1,
                                      wake.maxAttempts, log)
    /\ UNCHANGED <<remoteUrlSet, API_URL, init, health>>
    /\ UNCHANGED <<vars, waitVars, clientCalls, storage, histCalls,
                   donationVars, watchVars>>

\* Line 112: the timer of the delay fires, the loop goes round.
WakeDelayEnd ==
    /\ wake.pc = "delay"
    /\ WakeLoopHead(wake.by, wake.attempt, wake.maxAttempts, connLog)
    /\ UNCHANGED <<remoteUrlSet, API_URL, init, health>>
    /\ UNCHANGED <<vars, waitVars, clientCalls, storage, histCalls,
                   donationVars, watchVars>>

\* Lines 128-146: the request to the local fallback settles.
WakeLocalResponse(status) ==
    /\ wake.pc = "localRequest"
    /\ status \in Answers("local")
    /\ wake' = [wake EXCEPT !.pc = "returned",
                            !.attempt = wake.maxAttempts + 1,
                            !.success = WakeReturnsOn(status)]
    /\ connLog' = Append(connLog,
                         Response("wake", "local", wake.maxAttempts + 1, status))
    /\ UNCHANGED <<remoteUrlSet, API_URL, init, health>>
    /\ UNCHANGED <<vars, waitVars, clientCalls, storage, histCalls,
                   donationVars, watchVars>>

\* checkServerHealth up to its first await (lines 55-60).
HealthStart ==
    /\ health' = [pc |-> "localRequest", result |-> FALSE]
    /\ connLog' = Append(connLog, Request("health", "local", 1))

\* App.initialize lines 87-94 (and 108-112): wakeServer has returned; on
\* success initializeFirebase runs checkServerHealth, else the error shows.
AppAfterWake ==
    /\ init = "preheating"
    /\ wake.pc = "returned"
    /\ IF wake.success
         THEN init' = "initializingFirebase" /\ HealthStart
         ELSE init' = "error" /\ UNCHANGED <<health, connLog>>
    /\ UNCHANGED <<remoteUrlSet, API_URL, wake>>
    /\ UNCHANGED <<vars, waitVars, clientCalls, storage, histCalls,
                   donationVars, watchVars>>

\* initializeFirebase called by other code (firebase config lines 91-102).
InitializeFirebaseCall ==
    /\ init = "idle"
    /\ wake.pc = "idle"
    /\ health.pc = "idle"
    /\ HealthStart
    /\ UNCHANGED <<remoteUrlSet, API_URL, init, wake>>
    /\ UNCHANGED <<vars, waitVars, clientCalls, storage, histCalls,
                   donationVars, watchVars>>

\* checkServerHealth lines 60-88: the request to the local server settles.
\* A status 200 selects the local server; a rejection leads to the catch,
\* which tries the remote server when its URL is defined; a response with
\* another status leaves the try without entering the catch.
HealthLocalResponse(status) ==
    /\ health.pc = "localRequest"
    /\ status \in Answers("local")
    /\ LET log == Append(connLog, Response("health", "local", 1, status))
       IN  CASE status = "200" ->
                  /\ API_URL' = "local"
                  /\ health' = [pc |-> "returned", result |-> TRUE]
                  /\ connLog' = log
             [] status = "error" /\ remoteUrlSet ->
                  /\ health' = [pc |-> "remoteRequest", result |-> FALSE]
                  /\ connLog' = Append(log, Request("health", "remote", 1))
                  /\ UNCHANGED API_URL
             [] OTHER ->
                  /\ health' = [pc |-> "returned", result |-> FALSE]
                  /\ connLog' = log
                  /\ UNCHANGED API_URL
    /\ UNCHANGED <<remoteUrlSet, init, wake>>
    /\ UNCHANGED <<vars, waitVars, clientCalls, storage, histCalls,
                   donationVars, watchVars>>

\* checkServerHealth lines 72-88: the request to the remote server settles.
HealthRemoteResponse(status) ==
    /\ health.pc = "remoteRequest"
    /\ status \in Answers("remote")
    /\ IF status = "200"
         THEN /\ API_URL' = "remote"
              /\ health' = [pc |-> "returned", result |-> TRUE]
         ELSE /\ health' = [pc |-> "returned", result |-> FALSE]
              /\ UNCHANGED API_URL
    /\ connLog' = Append(connLog, Response("health", "remote", 1, status))
    /\ UNCHANGED <<remoteUrlSet, init, wake>>
    /\ UNCHANGED <<vars, waitVars, clientCalls, storage, histCalls,
                   donationVars, watchVars>>

\* App.initialize lines 94-112: initializeFirebase has returned or thrown.
AppAfterHealth ==
    /\ init = "initializingFirebase"
    /\ health.pc = "returned"
    /\ init' = IF health.result THEN "initialized" ELSE "error"
    /\ UNCHANGED <<remoteUrlSet, API_URL, wake, health, connLog>>
    /\ UNCHANGED <<vars, waitVars, clientCalls, storage, histCalls,
                   donationVars, watchVars>>

ConnNext ==
    \/ AppInitialize
    \/ \E maxAttempts \in 0..MaxAttempts : WakeServerCall(maxAttempts)
    \/ \E status \in HttpStatuses : WakeResponse(status)
    \/ WakeDelayEnd
    \/ \E status \in HttpStatuses : WakeLocalResponse(status)
    \/ AppAfterWake
    \/ InitializeFirebaseCall
    \/ \E status \in HttpStatuses : HealthLocalResponse(status)
    \/ \E status \in HttpStatuses : HealthRemoteResponse(status)
    \/ AppAfterHealth

\* The remote URL is configured or not; nothing has been called.
ConnInit ==
    /\ ExecutorInit
    /\ observeWait = FALSE
    /\ clientCalls = <<>>
    /\ storage = Null
    /\ histCalls = [c \in HistCallIds |-> NoCall]
    /\ remoteUrlSet \in BOOLEAN
    /\ ConnIdle
    /\ DonationIdle
    /\ WatchIdle

ConnSpec == ConnInit /\ [][ConnNext]_connVars

\* Every HTTP request settles and every timer fires.
ConnFairness ==
    /\ WF_connVars(\E status \in HttpStatuses : WakeResponse(status))
    /\ WF_connVars(WakeDelayEnd)
    /\ WF_connVars(\E status \in HttpStatuses : WakeLocalResponse(status))

ConnFairSpec == ConnSpec /\ ConnFairness

ConnTypeOK ==
    /\ remoteUrlSet \in BOOLEAN
    /\ API_URL \in {"local", "remote"}
    /\ init \in {"idle", "preheating", "initializingFirebase", "initialized", "error"}
    /\ wake.pc \in {"idle", "request", "delay", "localRequest", "returned"}
    /\ health.pc \in {"idle", "localRequest", "remoteRequest", "returned"}

\* ---- C21 ---------------------------------------------------------------
\* Positions of connLog holding a request / a response.
RequestsAt == {i \in DOMAIN connLog : connLog[i].ev = "request"}
ResponsesAt == {i \in DOMAIN connLog : connLog[i].ev = "response"}

\* C21 - local-first server connection: during app start-up the first
\* request goes to the local server, and every request to the remote server
\* comes after a request to the local server that was not answered with 200.
C21_LocalFirst ==
    (init # "idle" /\ remoteUrlSet) =>
        /\ \A i \in RequestsAt :
              (\A k \in RequestsAt : i <= k) => connLog[i].to = "local"
        /\ \A i \in RequestsAt :
              connLog[i].to = "remote" =>
                  \E k \in ResponsesAt : /\ k < i
                                         /\ connLog[k].to = "local"
                                         /\ connLog[k].status # "200"

\* ---- C22 ---------------------------------------------------------------
\* C22 - remote fallback of the health check: checkServerHealth returns
\* false, with the remote URL configured, only after the remote server was
\* tried and did not answer 200; when it returns true, API_URL is the
\* server that answered 200.
C22_RemoteFallback ==
    health.pc = "returned" =>
        IF health.result
          THEN \E k \in ResponsesAt : /\ connLog[k].by = "health"
                                      /\ connLog[k].to = API_URL
                                      /\ connLog[k].status = "200"
          ELSE remoteUrlSet =>
                 \E k \in ResponsesAt : /\ connLog[k].by = "health"
                                        /\ connLog[k].to = "remote"
                                        /\ connLog[k].status # "200"

\* ---- C23 ---------------------------------------------------------------
\* What wakeServer did, in order.
WakeLog ==
    LET ByWake(e) == e.by = "wake" IN SelectSeq(connLog, ByWake)

WakeRequestsTo(to) ==
    {i \in DOMAIN WakeLog : WakeLog[i].ev = "request" /\ WakeLog[i].to = to}

\* C23 - wakeServer terminates with bounded attempts: a call makes at most
\* maxAttempts requests to serverUrl, then at most one to the local
\* fallback; there is a delay between two consecutive remote attempts and
\* none after the last; success = false is returned only when every one of
\* the maxAttempts + 1 requests failed to answer 200; and with every request
\* settling the call returns.
C23_BoundedAttempts ==
    /\ [](wake.pc # "idle" =>
            /\ Cardinality(WakeRequestsTo("remote")) <= wake.maxAttempts
            /\ Cardinality(WakeRequestsTo("local")) <= 1
            /\ \A i \in WakeRequestsTo("remote"), k \in WakeRequestsTo("local") : i < k
            \* remote attempts are numbered 1, 2, ... and a delay lies
            \* between each attempt and the next
            /\ \A i \in WakeRequestsTo("remote") :
                  WakeLog[i].n > 1 =>
                      \E d \in 1..(i - 1) :
                          /\ WakeLog[d] = Delay(WakeLog[i].n - 1)
                          /\ \E r \in WakeRequestsTo("remote") :
                                r < d /\ WakeLog[r].n = WakeLog[i].n - 1
            \* no delay after the last attempt, nor before the fallback
            /\ \A d \in DOMAIN WakeLog :
                  WakeLog[d].ev = "delay" => WakeLog[d].n < wake.maxAttempts
            /\ (wake.pc = "returned" /\ ~wake.success) =>
                  /\ Cardinality(WakeRequestsTo("remote")) = wake.maxAttempts
                  /\ Cardinality(WakeRequestsTo("local")) = 1
                  /\ \A i \in DOMAIN WakeLog :
                        WakeLog[i].ev = "response" => WakeLog[i].status # "200")
    /\ (wake.pc # "idle") ~> (wake.pc = "returned")

\* All three remote attempts and the local fallback failed.
C23_Witness ==
    /\ wake.pc = "returned"
    /\ ~wake.success
    /\ wake.maxAttempts = MaxAttempts
    /\ Cardinality(WakeRequestsTo("remote")) = MaxAttempts
    /\ Cardinality({d \in DOMAIN WakeLog : WakeLog[d].ev = "delay"}) = MaxAttempts - 1

\* ---- C24 ---------------------------------------------------------------
\* The arguments onProgressUpdate was called with, in order.
ProgressCalls ==
    LET IsProgress(e) == e.ev = "progress"
        calls == SelectSeq(connLog, IsProgress)
    IN  [i \in DOMAIN calls |-> calls[i].n]

\* C24 - wakeServer stops at the first success: once the k-th request to
\* serverUrl has answered 200, wakeServer has returned success with
\* attempt = k, that response is the last thing it did, and onProgressUpdate
\* has been called with exactly 1, 2, ..., k in that order.
C24_StopsAtFirstSuccess ==
    \A i \in DOMAIN WakeLog :
        (/\ WakeLog[i].ev = "response"
         /\ WakeLog[i].to = "remote"
         /\ WakeLog[i].status = "200") =>
            /\ wake.pc = "returned"
            /\ wake.success
            /\ wake.attempt = WakeLog[i].n
            /\ i = Len(WakeLog)
            /\ ProgressCalls = [n \in 1..WakeLog[i].n |-> n]

\* The third attempt answered 200 after two failures.
C24_Witness ==
    /\ wake.pc = "returned"
    /\ wake.success
    /\ wake.attempt = 3
    /\ WakeLog[Len(WakeLog)] = Response("wake", "remote", 3, "200")

\* ======================================================================
\* The donation dialog (src/src/hooks/useDonationDialog.ts)
\* ======================================================================
\* Time is counted in whole days; a stored timestamp is the day it was
\* written, None when the item is not set.

MIN_DAYS_BETWEEN_PROMPTS == 7
MIN_DAYS_FOR_NEW_USER == 7

\* The app is opened with a logged-in user (user set, isLoading false): the
\* two effects of lines 22-38 and 114-118 run, trackFirstLogin up to its
\* getItem (line 26), checkAndShowDonationDialog up to its first getItem
\* (line 50).
SessionStart ==
    /\ track \in {"idle", "done"}
    /\ check.pc \in {"idle", "done"}
    /\ track' = "readFirst"
    /\ check' = [pc |-> "readLastShown", lastShown |-> None, now |-> None]
    /\ actualFirstLogin' = IF actualFirstLogin = None THEN day ELSE actualFirstLogin
    /\ UNCHANGED <<day, firstLoginItem, lastShownItem, shows>>
    /\ UNCHANGED <<vars, waitVars, clientCalls, storage, histCalls,
                   connVars, watchVars>>

\* Lines 26-33: the getItem of trackFirstLogin settles.
TrackRead(readOk) ==
    /\ track = "readFirst"
    /\ track' = IF readOk /\ firstLoginItem = None THEN "writeFirst" ELSE "done"
    /\ UNCHANGED <<day, firstLoginItem, lastShownItem, check, actualFirstLogin, shows>>
    /\ UNCHANGED <<vars, waitVars, clientCalls, storage, histCalls,
                   connVars, watchVars>>

\* Line 29: the setItem of trackFirstLogin settles; new Date() was taken
\* when it was issued, within the same day.
TrackWrite(writeOk) ==
    /\ track = "writeFirst"
    /\ track' = "done"
    /\ firstLoginItem' = IF writeOk THEN day ELSE firstLoginItem
    /\ UNCHANGED <<day, lastShownItem, check, actualFirstLogin, shows>>
    /\ UNCHANGED <<vars, waitVars, clientCalls, storage, histCalls,
                   connVars, watchVars>>

\* Line 50: the getItem of DONATION_DIALOG_KEY settles; a failure ends the
\* call in the catch.
CheckReadLastShown(readOk) ==
    /\ check.pc = "readLastShown"
    /\ check' = IF readOk
                  THEN [check EXCEPT !.pc = "readFirst", !.lastShown = lastShownItem]
                  ELSE [check EXCEPT !.pc = "done"]
    /\ UNCHANGED <<day, firstLoginItem, lastShownItem, track, actualFirstLogin, shows>>
    /\ UNCHANGED <<vars, waitVars, clientCalls, storage, histCalls,
                   connVars, watchVars>>

\* Lines 56-65: `if (firstLoginStr)` and daysSinceFirstLogin <
\* MIN_DAYS_FOR_NEW_USER.
IsNewUser(firstLoginStr, now) ==
    firstLoginStr # None /\ now - firstLoginStr < MIN_DAYS_FOR_NEW_USER

\* Lines 53, 67-73: shouldCheck.
ShouldCheck(lastShownStr, now) ==
    lastShownStr = None \/ now - lastShownStr >= MIN_DAYS_BETWEEN_PROMPTS

\* Lines 51-82: the getItem of USER_FIRST_LOGIN_KEY settles and the checks
\* run; lucky is Math.random() < CHANCE_TO_SHOW.  showDonationDialog is
\* called before the setItem of line 81.
CheckReadFirst(readOk, lucky) ==
    /\ check.pc = "readFirst"
    /\ IF readOk /\ ~IsNewUser(firstLoginItem, day)
             /\ ShouldCheck(check.lastShown, day) /\ lucky
         THEN /\ shows' = shows \cup {day}
              /\ check' = [check EXCEPT !.pc = "writeLastShown", !.now = day]
         ELSE /\ check' = [check EXCEPT !.pc = "done"]
              /\ UNCHANGED shows
    /\ UNCHANGED <<day, firstLoginItem, lastShownItem, track, actualFirstLogin>>
    /\ UNCHANGED <<vars, waitVars, clientCalls, storage, histCalls,
                   connVars, watchVars>>

\* Line 81: the setItem of DONATION_DIALOG_KEY settles.
CheckWriteLastShown(writeOk) ==
    /\ check.pc = "writeLastShown"
    /\ check' = [check EXCEPT !.pc = "done"]
    /\ lastShownItem' = IF writeOk THEN check.now ELSE lastShownItem
    /\ UNCHANGED <<day, firstLoginItem, track, actualFirstLogin, shows>>
    /\ UNCHANGED <<vars, waitVars, clientCalls, storage, histCalls,
                   connVars, watchVars>>

\* A day passes.
NextDay ==
    /\ day < MaxDays
    /\ day' = day + 1
    /\ UNCHANGED <<firstLoginItem, lastShownItem, track, check, actualFirstLogin, shows>>
    /\ UNCHANGED <<vars, waitVars, clientCalls, storage, histCalls,
                   connVars, watchVars>>

DonationNext ==
    \/ SessionStart
    \/ \E readOk \in BOOLEAN : TrackRead(readOk)
    \/ \E writeOk \in BOOLEAN : TrackWrite(writeOk)
    \/ \E readOk \in BOOLEAN : CheckReadLastShown(readOk)
    \/ \E readOk, lucky \in BOOLEAN : CheckReadFirst(readOk, lucky)
    \/ \E writeOk \in BOOLEAN : CheckWriteLastShown(writeOk)
    \/ NextDay

DonationSpec == Init /\ [][DonationNext]_donationVars

DonationTypeOK ==
    /\ day \in 1..MaxDays
    /\ firstLoginItem \in 0..MaxDays
    /\ lastShownItem \in 0..MaxDays
    /\ track \in {"idle", "readFirst", "writeFirst", "done"}
    /\ check.pc \in {"idle", "readLastShown", "readFirst", "writeLastShown", "done"}
    /\ shows \subseteq 1..MaxDays

\* ---- C25 ---------------------------------------------------------------
\* C25 - the donation dialog is never shown automatically to a new user:
\* every call of showDonationDialog by checkAndShowDonationDialog happens
\* at least MIN_DAYS_FOR_NEW_USER days after the user's first login, the
\* first session included.
C25_NeverShownToNewUser ==
    \A d \in shows : d - actualFirstLogin >= MIN_DAYS_FOR_NEW_USER

\* ======================================================================
\* The watchlist (WatchlistProvider, src/src/contexts/ThemeContext.tsx)
\* ======================================================================
\* A document and a local item are records [id, animeId, status]; the
\* document created by call c has id c.

AnimeIds == {1, 2}
OldDocId == 10
UnknownId == 99
DocIds == WatchCallIds \cup {OldDocId, UnknownId}
DefaultStatus == "Plan to Watch"
NewStatuses == {"Watching"}

\* A watchlist stored by an earlier session.
OldDoc == [id |-> OldDocId, animeId |-> 1, status |-> DefaultStatus]

HasId(list, id) == \E i \in DOMAIN list : list[i].id = id
HasAnime(list, animeId) == \E i \in DOMAIN list : list[i].animeId = animeId

WithoutId(list, id) ==
    LET Keep(item) == item.id # id IN SelectSeq(list, Keep)

WithStatus(list, id, status) ==
    [i \in DOMAIN list |->
        IF list[i].id = id THEN [list[i] EXCEPT !.status = status] ELSE list[i]]

\* Whether the server accepts the operation: an update needs its document.
BackendAccepts(call) == call.op = "update" => HasId(backend, call.id)

\* The collection after the server has carried out the operation of call c;
\* the document written last is the newest.
BackendAfter(c) ==
    LET call == watchCalls[c] IN
    CASE call.op = "add" ->
           <<[id |-> c, animeId |-> call.animeId, status |-> call.status]>> \o backend
      [] call.op = "update" ->
           LET Is(item) == item.id = call.id
           IN  WithStatus(SelectSeq(backend, Is), call.id, call.status)
                   \o WithoutId(backend, call.id)
      [] OTHER -> WithoutId(backend, call.id)

\* The setItems of lines 262, 296-307 and 328.
ItemsApplied(c) ==
    LET call == watchCalls[c] IN
    CASE call.op = "add" ->
           <<[id |-> c, animeId |-> call.animeId, status |-> call.status]>> \o items
      [] call.op = "update" -> WithStatus(items, call.id, call.status)
      [] OTHER -> WithoutId(items, call.id)

\* (mutant) the local list is updated before the outcome is known.
ItemsAfter_Optimistic(c, ok) == ItemsApplied(c)

\* The local list after the backend call of call c has settled: setItems is
\* reached only when the await did not throw.
ItemsAfter(c, ok) == IF ok THEN ItemsApplied(c) ELSE items

\* addToWatchlist / updateWatchlistItem / removeFromWatchlist up to the
\* first await (lines 216-220, 274-278, 316-320): without a user the call
\* throws at once.  updateWatchlistItem looks its item up in the items of
\* the render in which it was called.
WatchCall(c, op, animeId, id, status) ==
    /\ watchCalls[c].pc = "idle"
    /\ \A k \in 1..(c - 1) : watchCalls[k].pc # "idle"
    /\ watchCalls' = [watchCalls EXCEPT ![c] =
           [ op      |-> op,
             animeId |-> IF op = "add" THEN animeId ELSE 0,
             id      |-> IF op = "add" THEN 0 ELSE id,
             status  |-> IF op = "add" THEN DefaultStatus
                         ELSE IF op = "update" THEN status ELSE "none",
             pc      |-> IF user THEN "serverCheck" ELSE "rejected",
             found   |-> op = "update" /\ HasId(items, id) ]]
    /\ UNCHANGED <<user, backend, items>>
    /\ UNCHANGED <<vars, waitVars, clientCalls, storage, histCalls,
                   connVars, donationVars>>

\* isServerAvailable settles (lines 220-223, 278-284, 320-325).
WatchServerCheck(c, available) ==
    /\ watchCalls[c].pc = "serverCheck"
    /\ watchCalls' = [watchCalls EXCEPT ![c].pc =
           IF ~available THEN "rejected"
           ELSE IF watchCalls[c].op = "add" THEN "query"
           ELSE IF watchCalls[c].op = "update" /\ ~watchCalls[c].found THEN "rejected"
           ELSE "backendOp"]
    /\ UNCHANGED <<user, backend, items>>
    /\ UNCHANGED <<vars, waitVars, clientCalls, storage, histCalls,
                   connVars, donationVars>>

\* Lines 227-236: the existence query of addToWatchlist settles.
WatchQuery(c, ok) ==
    /\ watchCalls[c].pc = "query"
    /\ watchCalls' = [watchCalls EXCEPT ![c].pc =
           IF ok /\ ~HasAnime(backend, watchCalls[c].animeId)
             THEN "backendOp" ELSE "rejected"]
    /\ UNCHANGED <<user, backend, items>>
    /\ UNCHANGED <<vars, waitVars, clientCalls, storage, histCalls,
                   connVars, donationVars>>

\* Lines 236-267, 286-312, 325-333: callFirestore('add' / 'update' /
\* 'delete') settles; on success the local list is updated, on failure the
\* catch rethrows.
WatchBackendOp(c, ok) ==
    /\ watchCalls[c].pc = "backendOp"
    /\ ok => BackendAccepts(watchCalls[c])
    /\ backend' = IF ok THEN BackendAfter(c) ELSE backend
    /\ items' = ItemsAfter(c, ok)
    /\ watchCalls' = [watchCalls EXCEPT ![c].pc = IF ok THEN "resolved" ELSE "rejected"]
    /\ UNCHANGED user
    /\ UNCHANGED <<vars, waitVars, clientCalls, storage, histCalls,
                   connVars, donationVars>>

\* Lines 169-205: fetchWatchlistItems, run at mount and every 30 s, replaces
\* the local list by the collection, newest first.
WatchPoll ==
    /\ user
    /\ items # backend
    /\ items' = backend
    /\ UNCHANGED <<user, backend, watchCalls>>
    /\ UNCHANGED <<vars, waitVars, clientCalls, storage, histCalls,
                   connVars, donationVars>>

WatchNext ==
    \/ \E c \in WatchCallIds : \E op \in {"add", "update", "remove"} :
       \E animeId \in AnimeIds : \E id \in DocIds : \E status \in NewStatuses :
           WatchCall(c, op, animeId, id, status)
    \/ \E c \in WatchCallIds : \E available \in BOOLEAN : WatchServerCheck(c, available)
    \/ \E c \in WatchCallIds : \E ok \in BOOLEAN : WatchQuery(c, ok)
    \/ \E c \in WatchCallIds : \E ok \in BOOLEAN : WatchBackendOp(c, ok)
    \/ WatchPoll

\* Logged in or not; the watchlist empty or holding one item from earlier.
WatchInit ==
    /\ ExecutorInit
    /\ observeWait = FALSE
    /\ clientCalls = <<>>
    /\ storage = Null
    /\ histCalls = [c \in HistCallIds |-> NoCall]
    /\ remoteUrlSet = TRUE
    /\ ConnIdle
    /\ DonationIdle
    /\ user \in BOOLEAN
    /\ backend \in {<<>>, <<OldDoc>>}
    /\ items = IF user THEN backend ELSE <<>>
    /\ watchCalls = [c \in WatchCallIds |-> NoWatchCall]

WatchSpec == WatchInit /\ [][WatchNext]_watchVars

WatchTypeOK ==
    /\ user \in BOOLEAN
    /\ \A i \in DOMAIN backend : backend[i].id \in DocIds
    /\ \A i \in DOMAIN items : items[i].id \in DocIds
    /\ \A c \in WatchCallIds :
          watchCalls[c].pc \in {"idle", "serverCheck", "query", "backendOp",
                                "resolved", "rejected"}

\* ---- C26 ---------------------------------------------------------------
\* C26 - watchlist state is unchanged on error: a step in which a call of
\* addToWatchlist, updateWatchlistItem or removeFromWatchlist fails (its
\* promise rejects) leaves the local items as they were; a call changes the
\* local items only in the step in which its backend call has succeeded,
\* and resolves only then.
C26_UnchangedOnError ==
    [][\A c \in WatchCallIds :
          watchCalls'[c] # watchCalls[c] =>
              /\ watchCalls'[c].pc = "rejected" => items' = items
              /\ (items' # items \/ watchCalls'[c].pc = "resolved") =>
                    /\ watchCalls[c].pc = "backendOp"
                    /\ watchCalls'[c].pc = "resolved"
                    /\ BackendAccepts(watchCalls[c])
                    /\ backend' = BackendAfter(c)]_watchVars

\* The backend call of an update of an item that is in the list was
\* rejected, after an add had succeeded.
C26_Witness ==
    /\ watchCalls[1].op = "add" /\ watchCalls[1].pc = "resolved"
    /\ watchCalls[2].op = "update" /\ watchCalls[2].pc = "rejected"
    /\ watchCalls[2].found
    /\ watchCalls[2].id = 1
    /\ HasId(items, 1) /\ HasId(backend, 1)
    /\ \A i \in DOMAIN items : items[i].status = DefaultStatus

\* ---- C30 ---------------------------------------------------------------
NoDuplicateAnime(list) ==
    \A i, k \in DOMAIN list : i # k => list[i].animeId # list[k].animeId

\* C30 - no duplicate watchlist entries: under any interleaving of
\* addToWatchlist calls neither the backend collection nor the local items
\* list holds two items with the same animeId.
C30_NoDuplicateEntries ==
    NoDuplicateAnime(backend) /\ NoDuplicateAnime(items)

====
